---- MODULE Spec2Model ----
(***************************************************************************)
(* Model of packages/astro/src/compiler/codegen/index.ts: the codegen      *)
(* driver, the frontmatter analyzer (compileModule) and the async template *)
(* walk (compileHtml) with its two buffers, the parenthesis counter and    *)
(* the Markdown flush.                                                     *)
(*                                                                         *)
(* Emitted code is a sequence of tokens; every token records how many '('  *)
(* and ')' characters the emitted text holds.  Strings the code takes      *)
(* apart (tag names) are records of their parts.                           *)
(***************************************************************************)
EXTENDS Integers, Sequences, FiniteSets, TLC

\* Template nodes below the root Fragment of one document.
MaxNodes == 2
\* Top-level statements of a frontmatter script.
MaxStmts == 2

Range(s) == {s[i] : i \in 1..Len(s)}

RECURSIVE Concat(_)
Concat(ss) == IF ss = <<>> THEN <<>> ELSE Head(ss) \o Concat(Tail(ss))

(***************************************************************************)
(* JavaScript Set / Map, insertion ordered.                                *)
(***************************************************************************)
\* An array push in place of Set.prototype.add.
SetAddDup(s, x) == Append(s, x)

\* Set.prototype.add: appended only when absent (importStatements.add(...)).
SetAdd(s, x) == IF x \in Range(s) THEN s ELSE Append(s, x)

\* Set.prototype.delete.
SetDelete(s, x) == SelectSeq(s, LAMBDA e : e # x)

RECURSIVE SetAddAll(_, _)
SetAddAll(s, xs) == IF xs = <<>> THEN s ELSE SetAddAll(SetAdd(s, Head(xs)), Tail(xs))

RECURSIVE SetDeleteAll(_, _)
SetDeleteAll(s, xs) == IF xs = <<>> THEN s ELSE SetDeleteAll(SetDelete(s, Head(xs)), Tail(xs))

(***************************************************************************)
(* Import lines the emitter adds.                                          *)
(***************************************************************************)
PRISM_IMPORT == "import Prism from 'astro/components/Prism.astro';"
FETCH_IMPORT == "import {fetchContent} from 'astro/dist/internal/fetch-content.js';"
SLOT_IMPORT == "import { __astro_slot } from 'astro/dist/internal/__astro_slot.js';"
SLOT_CONTENT_IMPORT == "import { __astro_slot_content } from 'astro/dist/internal/__astro_slot.js';"
COMPONENT_IMPORT == "import {__astro_component} from 'astro/dist/internal/__astro_component.js';"
REGISTRY_IMPORT == "import {AstroElementRegistry} from 'astro/dist/internal/element-registry.js';"

(***************************************************************************)
(* Frontmatter statements.  type/decl are the Babel node types, names the  *)
(* identifiers the statement binds, text its verbatim source.              *)
(***************************************************************************)
Stmt(type, decl, names, url, text) ==
  [type |-> type, decl |-> decl, names |-> names, url |-> url, text |-> text]

ImportX == Stmt("ImportDeclaration", "", <<"X">>, "./X.jsx", "import X from './X.jsx';")
ImportYZ == Stmt("ImportDeclaration", "", <<"Y", "Z">>, "./c.jsx", "import {Y, Z} from './c.jsx';")
ImportNs == Stmt("ImportDeclaration", "", <<"ns">>, "./ns.js", "import * as ns from './ns.js';")
ImportMarkdown == Stmt("ImportDeclaration", "", <<"Markdown">>, "astro/components", "import {Markdown} from 'astro/components';")
ImportCss == Stmt("ImportDeclaration", "", <<>>, "./a.css", "import './a.css';")
ImportFs == Stmt("ImportDeclaration", "", <<"fs">>, "fs", "import fs from 'fs';")
ExportProp == Stmt("ExportNamedDeclaration", "VariableDeclaration", <<"title">>, "", "export let title;")
ExportLayout == Stmt("ExportNamedDeclaration", "VariableDeclaration", <<"__layout">>, "", "export const __layout = 'a';")
ExportContent == Stmt("ExportNamedDeclaration", "VariableDeclaration", <<"__content">>, "", "export const __content = {};")
ExportPaths == Stmt("ExportNamedDeclaration", "FunctionDeclaration", <<"getStaticPaths">>, "", "export async function getStaticPaths() {}")
ExportHelper == Stmt("ExportNamedDeclaration", "FunctionDeclaration", <<"helper">>, "", "export function helper() {}")
ExportClass == Stmt("ExportNamedDeclaration", "ClassDeclaration", <<"K">>, "", "export class K {}")
ExportList == Stmt("ExportNamedDeclaration", "", <<>>, "", "export { D };")
FunctionD == Stmt("FunctionDeclaration", "", <<"D">>, "", "function D() {}")
ConstD == Stmt("VariableDeclaration", "", <<"D">>, "", "const D = 'h1';")
FetchPosts == Stmt("VariableDeclaration", "", <<"posts">>, "", "const posts = Astro.fetchContent('./*.md');")
LogCall == Stmt("ExpressionStatement", "", <<>>, "", "console.log(1);")

Stmts ==
  {ImportX, ImportYZ, ImportNs, ImportCss, ImportFs, ExportProp, ExportLayout,
   ExportContent, ExportPaths, ExportHelper, ExportClass, ExportList, FunctionD,
   ConstD, FetchPosts, LogCall}

\* node_builtins.js: module names that need the node: scheme.
nodeBuiltinsSet == {"fs", "path", "url"}

\* /Astro\s*\.\s*fetchContent/.test(module.content)
UsesFetchContent(body) == \E i \in 1..Len(body) : body[i] = FetchPosts

\* babelParser.parse: a module binding the same identifier twice is a
\* syntax error.
ParseOk(body) ==
  \A i, j \in 1..Len(body) :
    i < j => Range(body[i].names) \cap Range(body[j].names) = {}

(***************************************************************************)
(* CodegenState (the parts all walks of one compile share).                *)
(***************************************************************************)
EmptyState ==
  [components |-> {}, componentImports |-> <<>>, declarations |-> {},
   importStatements |-> <<>>, exportStatements |-> <<>>, css |-> <<>>,
   customElementCandidates |-> {}]

\* state.componentImports.get(name) || []
ComponentImportsOf(st, name) ==
  Concat([i \in 1..Len(st.componentImports) |->
            IF st.componentImports[i].name = name
            THEN st.componentImports[i].texts ELSE <<>>])

\* state.componentImports.get(name)?.push(text), creating the entry first.
PushComponentImport(ci, name, text) ==
  IF \E i \in 1..Len(ci) : ci[i].name = name
  THEN [i \in 1..Len(ci) |->
          IF ci[i].name = name
          THEN [ci[i] EXCEPT !.texts = Append(@, text)] ELSE ci[i]]
  ELSE Append(ci, [name |-> name, texts |-> <<text>>])

(***************************************************************************)
(* compileModule: the reverse loop over the top-level statements.          *)
(***************************************************************************)
EmptyScan ==
  [removed |-> {}, componentImports |-> <<>>, componentProps |-> <<>>,
   componentExports |-> <<>>, getStaticPaths |-> "", declarations |-> {}]

\* The export case with the break of the function branch left out: every
\* exported function is spliced.
ScanExportNoBreak(node, i, acc) ==
  IF node.decl = "" THEN acc
  ELSE IF node.decl = "VariableDeclaration"
  THEN IF node.names[1] \in {"__layout", "__content"}
       THEN [acc EXCEPT !.componentExports = Append(@, node), !.removed = @ \cup {i}]
       ELSE [acc EXCEPT !.componentProps = Append(@, node.names[1]), !.removed = @ \cup {i}]
  ELSE IF node.decl = "FunctionDeclaration" /\ node.names[1] = "getStaticPaths"
  THEN [acc EXCEPT !.getStaticPaths = node.text, !.removed = @ \cup {i}]
  ELSE [acc EXCEPT !.removed = @ \cup {i}]

\* case 'ExportNamedDeclaration': an export list is left alone, a variable
\* is recorded as a special export or a prop, getStaticPaths is taken out;
\* any other exported function breaks before body.splice(i, 1), any other
\* declaration reaches it.
ScanExport(node, i, acc) ==
  IF node.decl = "" THEN acc
  ELSE IF node.decl = "VariableDeclaration"
  THEN IF node.names[1] \in {"__layout", "__content"}
       THEN [acc EXCEPT !.componentExports = Append(@, node), !.removed = @ \cup {i}]
       ELSE [acc EXCEPT !.componentProps = Append(@, node.names[1]), !.removed = @ \cup {i}]
  ELSE IF node.decl = "FunctionDeclaration"
  THEN IF node.names[1] # "getStaticPaths" THEN acc
       ELSE [acc EXCEPT !.getStaticPaths = node.text, !.removed = @ \cup {i}]
  ELSE [acc EXCEPT !.removed = @ \cup {i}]

\* One iteration of the switch on node.type; removed collects body.splice(i, 1).
ScanStmt(node, i, acc) ==
  CASE node.type = "ExportNamedDeclaration" -> ScanExport(node, i, acc)
    [] node.type = "FunctionDeclaration" ->
         [acc EXCEPT !.declarations = @ \cup Range(node.names)]
    [] node.type = "ImportDeclaration" ->
         [acc EXCEPT !.componentImports = Append(@, node), !.removed = @ \cup {i}]
    [] node.type = "VariableDeclaration" ->
         [acc EXCEPT !.declarations = @ \cup Range(node.names)]
    [] OTHER -> acc

\* let i = body.length; while (--i >= 0) { ... }
RECURSIVE ScanBody(_, _, _)
ScanBody(body, i, acc) ==
  IF i = 0 THEN acc ELSE ScanBody(body, i - 1, ScanStmt(body[i], i, acc))

\* for (const specifier of componentImport.specifiers) { ... }
RECURSIVE RecordSpecifiers(_, _, _)
RecordSpecifiers(st, names, imp) ==
  IF names = <<>> THEN st
  ELSE RecordSpecifiers(
         [st EXCEPT !.components = @ \cup {Head(names)},
                    !.componentImports = PushComponentImport(@, Head(names), imp.text)],
         Tail(names), imp)

\* camelCase(importUrl + 'Module') and the line synthesized for it.
ModuleAlias(url) == IF url = "./a.css" THEN "aCssModule" ELSE "module"
AliasImport(url) == "import * as " \o ModuleAlias(url) \o " from '" \o url \o "';"

\* for (const componentImport of componentImports) { ... }
RECURSIVE RecordImports(_, _, _)
RecordImports(st, imps, customElements) ==
  IF imps = <<>> THEN st
  ELSE LET imp == Head(imps)
           s1 == RecordSpecifiers(st, imp.names, imp)
           s2 == IF customElements /\ Len(imp.names) = 0
                 THEN [s1 EXCEPT !.importStatements = SetAdd(@, AliasImport(imp.url)),
                                 !.customElementCandidates = @ \cup {ModuleAlias(imp.url)}]
                 ELSE [s1 EXCEPT !.importStatements = SetAdd(@, imp.text)]
       IN RecordImports(s2, Tail(imps), customElements)

\* The throws of compileModule: parse failure, node builtin without node:.
ModuleThrows(body) ==
  \/ ~ParseOk(body)
  \/ \E i \in 1..Len(body) :
       body[i].type = "ImportDeclaration" /\ body[i].url \in nodeBuiltinsSet

\* babelGenerator(program).code: the statements left in body, in order.
ScriptOf(body, removed) ==
  LET RECURSIVE Keep(_)
      Keep(i) == IF i > Len(body) THEN <<>>
                 ELSE (IF i \in removed THEN <<>> ELSE <<body[i].text>>) \o Keep(i + 1)
  IN Keep(1)

\* compileModule(ast, module, state, compileOptions) on a body that parses.
CompileModuleResult(body, customElements) ==
  LET scan == ScanBody(body, Len(body), EmptyScan)
      s0 == IF UsesFetchContent(body)
            THEN [EmptyState EXCEPT !.importStatements = SetAdd(@, FETCH_IMPORT)]
            ELSE EmptyState
      s1 == [s0 EXCEPT !.declarations = scan.declarations]
      s2 == RecordImports(s1, scan.componentImports, customElements)
      s3 == [s2 EXCEPT !.exportStatements =
               SetAddAll(@, [k \in 1..Len(scan.componentExports) |->
                               scan.componentExports[k].text])]
  IN [state |-> s3,
      script |-> ScriptOf(body, scan.removed),
      getStaticPaths |-> scan.getStaticPaths,
      props |-> scan.componentProps]

(***************************************************************************)
(* Tag names.  A tag name "base.member:legacy" is kept as its parts, so    *)
(* that name.split(':') and name.split('.') are computed, not looked up.   *)
(***************************************************************************)
Tag(base, member, legacy) == [base |-> base, member |-> member, legacy |-> legacy]

\* Base names starting with a capital letter, and the ones holding a hyphen.
CapitalBases == {"X", "Y", "Z", "D", "U", "Markdown", "Fragment", "Prism"}
HyphenBases == {"my-el"}

\* const [componentName, _componentKind] = name.split(':')
ComponentName(tag) == [tag EXCEPT !.legacy = ""]

\* /\./.test(componentName)
HasDot(tag) == tag.member # ""

\* name.indexOf(':') > 0
HasColon(tag) == tag.legacy # ""

\* The key a Map/Set lookup by this name uses: a dotted or colon name is
\* never the key of an identifier.
KeyOf(tag) == IF HasDot(tag) \/ HasColon(tag) THEN "" ELSE tag.base

\* utils.js isCustomElementTag: /[-]/.test(tag)
isCustomElementTag(tag) == tag.base \in HyphenBases

\* utils.js isComponentTag: /^[A-Z]/ or /^[a-z]+\./ or a custom element
isComponentTag(tag) ==
  \/ tag.base \in CapitalBases
  \/ (tag.base \notin CapitalBases /\ tag.base \notin HyphenBases /\ HasDot(tag))
  \/ isCustomElementTag(tag)

(***************************************************************************)
(* Attributes.  kind is the shape of attr.value: the booleans true and     *)
(* false, an empty list, one Text segment, one MustacheTag segment whose   *)
(* expression transpiles (expr) or does not (bad).                         *)
(***************************************************************************)
Attr(name, kind, text) == [name |-> name, kind |-> kind, text |-> text]

hydrationDirectives == {"client:load", "client:idle", "client:visible", "client:media", "client:only"}

\* The code fragment getAttributes stores for one attribute.
ResolvedValue(attr) ==
  CASE attr.kind = "true" -> [q |-> "raw", s |-> "true"]
    [] attr.kind = "empty" -> [q |-> "json", s |-> ""]
    [] attr.kind = "text" -> [q |-> "json", s |-> attr.text]
    [] OTHER -> [q |-> "paren", s |-> attr.text]

\* result[attr.name] = value: a key keeps the place of its first insertion.
MapSet(m, key, val) ==
  IF \E i \in 1..Len(m) : m[i].key = key
  THEN [i \in 1..Len(m) |-> IF m[i].key = key THEN [key |-> key, val |-> val] ELSE m[i]]
  ELSE Append(m, [key |-> key, val |-> val])

MapHas(m, key) == \E i \in 1..Len(m) : m[i].key = key
MapGet(m, key) == LET i == CHOOSE i \in 1..Len(m) : m[i].key = key IN m[i].val

\* getAttributes throws when an attribute expression fails to transpile.
AttributesThrow(attrs) == \E i \in 1..Len(attrs) : attrs[i].kind = "bad"

\* getAttributes: the name -> code map; false/undefined values are omitted.
RECURSIVE getAttributes(_)
getAttributes(attrs) ==
  IF attrs = <<>> THEN <<>>
  ELSE LET a == attrs[Len(attrs)]
           rest == getAttributes(SubSeq(attrs, 1, Len(attrs) - 1))
       IN IF a.kind = "false" THEN rest ELSE MapSet(rest, a.name, ResolvedValue(a))

NoHydration == [method |-> "", value |-> ""]

\* key.slice(7)
Method(key) ==
  CASE key = "client:load" -> "load"
    [] key = "client:idle" -> "idle"
    [] key = "client:visible" -> "visible"
    [] key = "client:media" -> "media"
    [] key = "client:only" -> "only"
    [] OTHER -> ""

\* { method, value } of one directive: value is undefined for the literal 'true'.
HydrationOf(entry) ==
  [method |-> Method(entry.key),
   value |-> IF entry.val = [q |-> "raw", s |-> "true"] THEN "" ELSE entry.val.s]

\* findHydrationAttributes: the loop has no break, so each later directive
\* overwrites method and value.
findHydrationAttributes(attributes) ==
  LET RECURSIVE Scan(_, _)
      Scan(i, acc) ==
        IF i > Len(attributes) THEN acc
        ELSE IF attributes[i].key \in hydrationDirectives
             THEN Scan(i + 1, HydrationOf(attributes[i]))
             ELSE Scan(i + 1, acc)
  IN Scan(1, NoHydration)

\* node.attributes.find((attr) => attr.name === 'slot')
HasRawSlot(attrs) == \E i \in 1..Len(attrs) : attrs[i].name = "slot"

\* node.attributes.filter(({ name }) => name !== '$scope').length > 0
HasAttrsBesidesScope(attrs) == \E i \in 1..Len(attrs) : attrs[i].name # "$scope"

(***************************************************************************)
(* Emitted code.  A token is one fragment the emitter appends; t is its    *)
(* text with the attribute object left out, id the node it was emitted     *)
(* for, a, b and v what the claims read off it (slot name, component       *)
(* identifier, hydration method, hydration value).                         *)
(***************************************************************************)
NoTag == Tag("", "", "")

Tok(t, id, a, b) == [t |-> t, id |-> id, a |-> a, b |-> b, v |-> ""]

Comma == Tok(",", 0, NoTag, "")
Close == Tok(")", 0, NoTag, "")

\* Tokens that open a hyperscript call left unclosed by the token itself.
HTokens ==
  {"h(Fragment, null", "h(Fragment, null, children", "h(__astro_slot, {}, children",
   "h(__astro_slot_content, {}", "h(\"tag\", {}", "h(tag, {}",
   "h(__astro_component(), {}"}

\* Number of '(' and of ')' characters of a token.
LParens(tok) ==
  CASE tok.t = "h(__astro_component(), {}" -> 2
    [] tok.t \in HTokens -> 1
    [] tok.t \in {"(code)", "__render({})"} -> 1
    [] OTHER -> 0

RParens(tok) ==
  CASE tok.t = "h(__astro_component(), {}" -> 1
    [] tok.t \in {")", "(code)", "__render({})"} -> 1
    [] OTHER -> 0

RECURSIVE CountL(_)
CountL(code) == IF code = <<>> THEN 0 ELSE LParens(Head(code)) + CountL(Tail(code))

RECURSIVE CountR(_)
CountR(code) == IF code = <<>> THEN 0 ELSE RParens(Head(code)) + CountR(Tail(code))

\* Last and first character of a token, as the cleanup regexes see them.
EndsWithParen(tok) == tok.t \in {")", "(code)", "__render({})"}
StartsWithH(tok) == tok.t \in HTokens

\* md.trim() is empty: nothing but whitespace text.
Blank(md) == \A i \in 1..Len(md) : md[i].t = "raw" /\ md[i].b = "blank"

\* .replace(/^\,/, '')
StripLeadingComma(code) ==
  IF code # <<>> /\ Head(code) = Comma THEN Tail(code) ELSE code

\* .replace(/\,\)/g, ')')
RECURSIVE CollapseCommaParen(_)
CollapseCommaParen(code) ==
  IF Len(code) < 2 THEN code
  ELSE IF code[1] = Comma /\ code[2].t = ")"
       THEN <<code[2]>> \o CollapseCommaParen(SubSeq(code, 3, Len(code)))
       ELSE <<code[1]>> \o CollapseCommaParen(Tail(code))

\* .replace(/\,+/g, ',')
RECURSIVE CollapseCommas(_)
CollapseCommas(code) ==
  IF Len(code) < 2 THEN code
  ELSE IF code[1] = Comma /\ code[2] = Comma
       THEN CollapseCommas(Tail(code))
       ELSE <<code[1]>> \o CollapseCommas(Tail(code))

\* .replace(/\)h/g, '),h')
RECURSIVE InsertCommas(_)
InsertCommas(code) ==
  IF Len(code) < 2 THEN code
  ELSE IF EndsWithParen(code[1]) /\ StartsWithH(code[2])
       THEN <<code[1], Comma>> \o InsertCommas(Tail(code))
       ELSE <<code[1]>> \o InsertCommas(Tail(code))

\* The rewrites applied to buffers.out once the walk has ended.
Cleanup(out) ==
  InsertCommas(CollapseCommas(CollapseCommaParen(StripLeadingComma(out))))

(***************************************************************************)
(* Template nodes.  code is what transpiling an Expression gives, text     *)
(* whether a Text node is whitespace only, kids the number of child nodes  *)
(* spliced into an Expression.                                             *)
(***************************************************************************)
Node(type, tag, attrs, code, text, kids) ==
  [type |-> type, tag |-> tag, attrs |-> attrs, code |-> code, text |-> text, kids |-> kids]

El(type, tag, attrs) == Node(type, tag, attrs, "", "", 0)
Element(base, attrs) == El("Element", Tag(base, "", ""), attrs)
Component(tag, attrs) == El("InlineComponent", tag, attrs)
Text(text) == Node("Text", NoTag, <<>>, "", text, 0)
Expression(code, kids) == Node("Expression", NoTag, <<>>, code, "", kids)
Leaf(type) == Node(type, NoTag, <<>>, "", "", 0)
FragmentNode == Leaf("Fragment")

ElementClass == {"Slot", "Head", "InlineComponent", "Title", "Element"}
FALSY_EXPRESSIONS == {"false", "null", "undefined", "void 0"}

(***************************************************************************)
(* markers.insideMarkdown: false, or { $scope, count }.                    *)
(***************************************************************************)
MarkerOff == [on |-> FALSE, count |-> 0]

(***************************************************************************)
(* One invocation of compileHtml: its locals (paren, buffers, curr), the   *)
(* nodes the walker has entered and not left, and where it is suspended.   *)
(***************************************************************************)
NoCont == [h |-> "", path |-> "", node |-> FragmentNode, id |-> 0]

NewFrame(st, parent, via) ==
  [st |-> st, parent |-> parent, via |-> via, stack |-> <<>>, pos |-> 0,
   paren |-> -1, out |-> <<>>, md |-> <<>>, curr |-> "out",
   pc |-> "start", cont |-> NoCont, result |-> <<>>]

\* buffers[curr] += ...
Emit(w, toks) ==
  IF w.f.curr = "out" THEN [w EXCEPT !.f.out = @ \o toks]
  ELSE [w EXCEPT !.f.md = @ \o toks]

\* buffers.out += ...
EmitOut(w, toks) == [w EXCEPT !.f.out = @ \o toks]

IncParen(w) == [w EXCEPT !.f.paren = @ + 1]
DecParen(w) == [w EXCEPT !.f.paren = @ - 1]
AddImport(w, line) == [w EXCEPT !.state.importStatements = SetAdd(@, line)]
Logged(w, entry) == [w EXCEPT !.log = Append(@, entry)]
Push(w, n, id) == [w EXCEPT !.f.stack = Append(@, [node |-> n, id |-> id])]
Pop(w) == [w EXCEPT !.f.stack = SubSeq(@, 1, Len(@) - 1)]
Rejected(w) == [w EXCEPT !.f.pc = "rejected"]

\* pushMarkdownToBuffer when md.trim() is empty.
FlushBlank(w) ==
  [w EXCEPT !.f.out = @ \o <<Comma>> \o w.f.md, !.f.md = <<>>, !.f.curr = "out"]

\* pushMarkdownToBuffer after the recursive compileHtml has resolved.
FlushRendered(w, result) ==
  [w EXCEPT !.f.out = @ \o <<Comma>> \o result, !.f.md = <<>>, !.f.curr = "out"]

(***************************************************************************)
(* enter, element-class nodes (Slot, Head, InlineComponent, Title,         *)
(* Element).                                                               *)
(***************************************************************************)
\* case 'Prism': the import line and the synthetic component descriptor.
PrismPrelude(w, n) ==
  IF n.type \in {"Slot", "Head", "InlineComponent"} /\ n.tag = Tag("Prism", "", "")
  THEN [AddImport(w, PRISM_IMPORT) EXCEPT !.state.components = @ \cup {"Prism"}]
  ELSE w

\* components.get(componentName), replaced by the namespace's entry when
\* the name has a dot.
HasComponentInfo(st, cn) ==
  IF HasDot(cn) THEN cn.base \in st.components ELSE KeyOf(cn) \in st.components

isFrontmatterDefinedComponent(st, cn) ==
  KeyOf(cn) \in st.declarations /\ ~HasComponentInfo(st, cn)

isFragmentComponent(cn) == cn = Tag("Fragment", "", "")

\* Which branch of enter a component tag takes.
Resolve(st, tag) ==
  LET cn == ComponentName(tag) IN
  IF (isFrontmatterDefinedComponent(st, cn) /\ ~isCustomElementTag(cn)) \/ isFragmentComponent(cn)
  THEN "frontmatter"
  ELSE IF ~HasComponentInfo(st, cn) /\ ~isCustomElementTag(cn) THEN "undefined"
  ELSE IF cn = Tag("Markdown", "", "") THEN "markdown"
  ELSE "imported"

\* getComponentWrapper: the hydration method, the identifier passed to
\* __astro_component and the imports the wrapper needs.
getComponentWrapper(tag, hydration) ==
  LET method == IF HasColon(tag) THEN tag.legacy ELSE hydration.method
      name == IF HasColon(tag) THEN ComponentName(tag) ELSE tag
  IN IF isCustomElementTag(tag)
     THEN [ident |-> Tag("__astro_element_registry", "", ""), method |-> method,
           wrapperImports |-> <<REGISTRY_IMPORT, COMPONENT_IMPORT>>]
     ELSE [ident |-> IF method = "only" THEN Tag("Fragment", "", "") ELSE name,
           method |-> method,
           wrapperImports |-> <<COMPONENT_IMPORT>>]

\* catch (err) { paren--; error(...) }
Caught(w) == Logged(DecParen(w), "error")

\* if (attributes.slot) { ... h(__astro_slot_content, { name }, ; paren++ }
SlotWrapper(w, attributes, id) ==
  IF MapHas(attributes, "slot")
  THEN IncParen(Emit(AddImport(w, SLOT_CONTENT_IMPORT),
                     <<Tok("h(__astro_slot_content, {}", id, NoTag, MapGet(attributes, "slot").s), Comma>>))
  ELSE w

\* The wrapper's imports are added and nothing is deleted.
WrapperImportsKept(w, tag, hydration) ==
  LET w1 == [w EXCEPT !.state.importStatements =
               SetAddAll(@, getComponentWrapper(tag, hydration).wrapperImports)]
  IN IF HasColon(tag) THEN Logged(w1, "warn") ELSE w1

\* The imports of an imported component: the wrapper's are added (the
\* legacy Name:method form is warned about on the way), the component's own
\* are deleted when the directive found among the attributes is client:only.
WrapperImports(w, tag, hydration) ==
  LET wr == getComponentWrapper(tag, hydration)
      w0 == IF HasColon(tag) THEN Logged(w, "warn") ELSE w
      w1 == [w0 EXCEPT !.state.importStatements = SetAddAll(@, wr.wrapperImports)]
  IN IF hydration.method = "only"
     THEN [w1 EXCEPT !.state.importStatements =
             SetDeleteAll(@, ComponentImportsOf(w.state, KeyOf(ComponentName(tag))))]
     ELSE w1

\* The first Markdown component counted twice.
EnterMarkdownMarkerTwice(w) ==
  [w EXCEPT !.marker = IF @.on THEN [on |-> TRUE, count |-> @.count + 1]
                       ELSE [on |-> TRUE, count |-> 2]]

\* state.markers.insideMarkdown = { $scope, count: count + 1 } or count: 1
EnterMarkdownMarker(w) ==
  [w EXCEPT !.marker = IF @.on THEN [on |-> TRUE, count |-> @.count + 1]
                       ELSE [on |-> TRUE, count |-> 1]]

\* enter up to the point where it may await pushMarkdownToBuffer.  path is
\* the branch taken: "caught" and "returned" have finished the handler.
EnterHead(w0, n, id) ==
  LET w == PrismPrelude(w0, n)
      attributes == getAttributes(n.attrs)
      hydration == findHydrationAttributes(attributes)
      w1 == IF w.f.out = <<>> THEN w ELSE EmitOut(w, <<Comma>>)
      branch == Resolve(w.state, n.tag)
  IN IF AttributesThrow(n.attrs)
     THEN [w |-> Caught(Logged(w, "parseError")), path |-> "caught"]
     ELSE IF n.type = "Slot"
     THEN [w |-> IncParen(Emit(AddImport(w1, SLOT_IMPORT),
                               <<Tok("h(__astro_slot, {}, children", id, n.tag, "")>>)),
           path |-> "returned"]
     ELSE IF ~isComponentTag(n.tag) THEN [w |-> w1, path |-> "plain"]
     ELSE IF branch = "frontmatter"
     THEN IF hydration.method # "" THEN [w |-> Caught(w1), path |-> "caught"]
          ELSE [w |-> w1, path |-> "frontmatter"]
     ELSE IF branch = "undefined" THEN [w |-> Caught(w1), path |-> "caught"]
     ELSE IF branch = "markdown"
     THEN [w |-> EnterMarkdownMarker(w1),
           path |-> IF \E i \in 1..Len(attributes) : attributes[i].key # "$scope"
                    THEN "render" ELSE "markdown"]
     ELSE [w |-> WrapperImports(w1, n.tag, hydration), path |-> "imported"]

\* Whether the branch awaits pushMarkdownToBuffer now.
EnterFlushes(w, path) ==
  path \in {"plain", "frontmatter", "render", "imported"} /\ w.f.curr = "markdown"

\* enter after the flush, if any: what the branch emits.
EnterTail(w, n, id, path) ==
  LET attributes == getAttributes(n.attrs)
      hydration == findHydrationAttributes(attributes)
      wr == getComponentWrapper(n.tag, hydration)
  IN CASE path = "plain" ->
            IncParen(Emit(SlotWrapper(w, attributes, id),
                          <<Tok("h(\"tag\", {}", id, n.tag, ""), Comma>>))
       [] path = "frontmatter" ->
            IncParen(Emit(SlotWrapper(w, attributes, id),
                          <<Tok("h(tag, {}", id, ComponentName(n.tag), ""), Comma>>))
       [] path = "render" ->
            [Emit(w, <<Comma, Tok("__render({})", id, ComponentName(n.tag), ""), Comma>>)
               EXCEPT !.f.curr = "markdown"]
       [] path = "markdown" -> [w EXCEPT !.f.curr = "markdown"]
       [] path = "imported" ->
            Emit(IncParen(SlotWrapper(w, attributes, id)),
                 <<[Tok("h(__astro_component(), {}", id, wr.ident, wr.method)
                      EXCEPT !.v = hydration.value]>>)
       [] OTHER -> w

(***************************************************************************)
(* leave                                                                   *)
(***************************************************************************)
\* The closing parentheses of an element-class leave.
Closes(w, n) ==
  LET w1 == IF HasRawSlot(n.attrs) THEN DecParen(EmitOut(w, <<Close>>)) ELSE w
  IN IF w1.f.paren # -1 THEN DecParen(EmitOut(w1, <<Close>>)) ELSE w1

\* leave of SlotTemplate, Slot, Head, Body, Title, Element after the flush.
LeaveElementTail(w, n) == Closes(w, n)

\* leave of an InlineComponent up to the flush.  A Markdown leave on a
\* marker that is false throws (count-- on a boolean).
LeaveInlineHead(w, n) ==
  IF n.tag = Tag("Markdown", "", "")
  THEN IF ~w.marker.on THEN [w |-> Rejected(w), path |-> "threw"]
       ELSE LET c == w.marker.count - 1
                w1 == [w EXCEPT !.marker = IF c <= 0 THEN MarkerOff
                                           ELSE [on |-> TRUE, count |-> c]]
            IN [w |-> w1,
                path |-> IF HasAttrsBesidesScope(n.attrs) THEN "returned" ELSE "inline"]
  ELSE [w |-> w, path |-> "inline"]

\* if (curr === 'markdown' && buffers.markdown !== '')
LeaveInlineFlushes(w) == w.f.curr = "markdown" /\ w.f.md # <<>>

\* leave of an InlineComponent after the flush, if there was one.
LeaveInlineTail(w, n, flushed) ==
  IF flushed /\ ~w.marker.on THEN w ELSE Closes(w, n)

(***************************************************************************)
(* Input documents.  A document is a frontmatter body, the style blocks of *)
(* ast.css, the custom-element feature flag and a template.  The template  *)
(* is read node by node as the walker reaches it; family names the set of  *)
(* node shapes the template is built from.                                 *)
(***************************************************************************)
Bodies == UNION {[1..k -> Stmts] : k \in 0..MaxStmts}

Doc(family, body, css, customElements) ==
  [family |-> family, body |-> body, css |-> css, customElements |-> customElements]

SlotA == Attr("slot", "text", "a")
BadAttr == Attr("x", "bad", "")
ContentAttr == Attr("content", "expr", "content")
ClientLoad == Attr("client:load", "true", "")
ClientOnly == Attr("client:only", "true", "")
ClientMedia == Attr("client:media", "text", "(max-width: 50em)")

TagX == Tag("X", "", "")
TagMarkdown == Tag("Markdown", "", "")

ErrorNodes ==
  {Element("div", <<>>), Element("div", <<BadAttr>>), Component(Tag("U", "", ""), <<>>),
   Component(Tag("D", "", ""), <<>>), Component(Tag("D", "", ""), <<ClientLoad>>),
   Component(TagX, <<>>), Component(TagMarkdown, <<>>),
   Component(Tag("D", "x", ""), <<>>), Expression("ok", 0),
   Expression("bad", 0), Expression("false", 0), Text("word")}

MarkdownNodes ==
  {Component(TagMarkdown, <<>>), Component(TagMarkdown, <<ContentAttr>>),
   Component(TagMarkdown, <<BadAttr>>), Element("div", <<>>), Component(TagX, <<>>), Text("word"), Text("blank"),
   Expression("ok", 0), Leaf("MustacheTag")}

SlotNodes ==
  {Element("div", <<SlotA>>), Element("div", <<>>), Element("div", <<BadAttr>>),
   Component(TagX, <<SlotA>>), El("Slot", Tag("slot", "", ""), <<>>),
   El("Slot", Tag("slot", "", ""), <<SlotA>>), Element("div", <<Attr("slot", "false", "")>>),
   Leaf("SlotTemplate"), Component(TagMarkdown, <<SlotA>>),
   Component(Tag("D", "", ""), <<SlotA>>), Text("word")}

HydrateNodes ==
  {Component(TagX, <<>>), Component(TagX, <<ClientOnly>>), Component(TagX, <<ClientLoad>>),
   Component(Tag("Y", "", ""), <<ClientOnly>>), Component(Tag("Z", "", ""), <<>>),
   Component(Tag("ns", "X", ""), <<ClientOnly>>), Component(Tag("X", "", "only"), <<>>),
   Component(Tag("X", "", "load"), <<>>), Component(TagX, <<ClientMedia>>),
   Component(TagX, <<ClientLoad, ClientOnly>>),
   Component(Tag("Prism", "", ""), <<>>), Element("my-el", <<>>),
   El("Slot", Tag("slot", "", ""), <<>>), Element("div", <<SlotA>>)}

StyleNodes == {Leaf("Style"), Element("div", <<>>), Text("word"), Leaf("Body")}

ChildNodes == {Element("div", <<>>), Component(TagX, <<>>), Component(TagMarkdown, <<>>)}
\* Nodes below the root of an Expression child.
GrandChildNodes == {Text("word")}
ExprNodes == ChildNodes \cup {Expression("ok", 1), Expression("ok", 2), Text("word")}

\* A Markdown region with text and an element: read two nodes further than
\* the other families, so that the flush awaited in the region has nodes
\* of its own.
RegionNodes == {Component(TagMarkdown, <<>>), Text("word"), Element("div", <<>>)}

FamilyNodes(family) ==
  CASE family = "error" -> ErrorNodes
    [] family = "markdown" -> MarkdownNodes
    [] family = "slot" -> SlotNodes
    [] family = "hydrate" -> HydrateNodes
    [] family = "style" -> StyleNodes
    [] family = "expr" -> ExprNodes
    [] family = "region" -> RegionNodes
    [] OTHER -> {}

\* What parse(rendered) gives for rendered Markdown.
RenderedNodes == {Element("p", <<>>), Text("word"), Component(TagMarkdown, <<>>)}

Docs ==
  {Doc("front", b, <<>>, ce) : b \in Bodies, ce \in BOOLEAN}
  \cup {Doc("error", <<ImportX, ConstD>>, <<>>, FALSE),
        Doc("markdown", <<ImportX, ImportMarkdown>>, <<>>, FALSE),
        Doc("slot", <<ImportX, ImportMarkdown, ConstD>>, <<>>, FALSE),
        Doc("hydrate", <<ImportX, ImportYZ, ImportNs>>, <<>>, TRUE),
        Doc("style", <<>>, <<"a{}">>, FALSE),
        Doc("style", <<>>, <<>>, FALSE),
        Doc("expr", <<ImportX, ImportMarkdown>>, <<>>, FALSE),
        Doc("region", <<ImportMarkdown>>, <<>>, FALSE)}

\* Documents the caller compiles a second time.
Recompiled == {"front", "markdown", "slot", "hydrate", "style"}

(***************************************************************************)
(* State                                                                   *)
(***************************************************************************)
VARIABLES
  doc,      \* the document being compiled
  asts,     \* asts[i]: the tree frame i walks, in document order, as far as read
  pass,     \* 1, or 2 for the second codegen call on the same AST
  pc,       \* codegen: "module", "css", "html", "done", "threw"
  state,    \* CodegenState
  markers,  \* markers[k]: markers.insideMarkdown of state object k
  frames,   \* the compileHtml invocations of this codegen call
  script,   \* CompileResult.script
  gsp,      \* CompileResult.getStaticPaths
  log,      \* calls on the logging sink
  art,      \* the artifacts returned so far
  nnodes,   \* nodes read below the roots
  nid       \* nodes read

vars == <<doc, asts, pass, pc, state, markers, frames, script, gsp, log, art, nnodes, nid>>

Init ==
  /\ doc \in Docs
  /\ asts = <<>>
  /\ pass = 1
  /\ pc = "module"
  /\ state = EmptyState
  /\ markers = <<MarkerOff>>
  /\ frames = <<>>
  /\ script = <<>>
  /\ gsp = ""
  /\ log = <<>>
  /\ art = <<>>
  /\ nnodes = 0
  /\ nid = 0

(***************************************************************************)
(* codegen                                                                 *)
(***************************************************************************)
\* const { script, getStaticPaths } = compileModule(ast, ast.module, state, ...)
CompileModule ==
  /\ pc = "module"
  /\ IF ModuleThrows(doc.body)
     THEN /\ pc' = "threw"
          /\ UNCHANGED <<state, script, gsp, log>>
     ELSE LET r == CompileModuleResult(doc.body, doc.customElements) IN
          /\ pc' = "css"
          /\ state' = r.state
          /\ script' = r.script
          /\ gsp' = r.getStaticPaths
          /\ log' = IF r.props # <<>> THEN Append(log, "warn") ELSE log
  /\ UNCHANGED <<doc, asts, pass, markers, frames, art, nnodes, nid>>

\* (ast.css || []).map((css) => compileCss(css, state))
CompileCss ==
  /\ pc = "css"
  /\ pc' = "html"
  /\ state' = [state EXCEPT !.css = @ \o doc.css]
  /\ UNCHANGED <<doc, asts, pass, markers, frames, script, gsp, log, art, nnodes, nid>>

\* const html = await compileHtml(ast.html, state, compileOptions)
StartHtml ==
  /\ pc = "html"
  /\ frames = <<>>
  /\ frames' = <<NewFrame(1, 0, "root")>>
  /\ asts' = IF pass = 1 THEN <<<<>>>> ELSE asts
  /\ UNCHANGED <<doc, pass, pc, state, markers, script, gsp, log, art, nnodes, nid>>

\* The TransformResult codegen returns.
Artifact ==
  [script |-> script,
   imports |-> state.importStatements,
   exports |-> state.exportStatements,
   html |-> frames[1].result,
   css |-> state.css,
   getStaticPaths |-> gsp,
   hasCustomElements |-> doc.customElements,
   customElementCandidates |-> state.customElementCandidates]

Finish ==
  /\ pc = "html"
  /\ frames # <<>>
  /\ frames[1].pc = "done"
  /\ pc' = "done"
  /\ art' = Append(art, Artifact)
  /\ UNCHANGED <<doc, asts, pass, state, markers, frames, script, gsp, log, nnodes, nid>>

\* The caller hands the same AST to codegen again: a fresh CodegenState.
Recompile ==
  /\ pc = "done"
  /\ pass = 1
  /\ doc.family \in Recompiled
  /\ pass' = 2
  /\ pc' = "module"
  /\ state' = EmptyState
  /\ markers' = <<MarkerOff>>
  /\ frames' = <<>>
  /\ script' = <<>>
  /\ gsp' = ""
  /\ UNCHANGED <<doc, asts, log, art, nnodes, nid>>

(***************************************************************************)
(* asyncWalk.  Frame i reads the next node of its tree (pass 1), or finds  *)
(* it in the tree the first compile left (pass 2).                         *)
(***************************************************************************)
W(i) == [f |-> frames[i], state |-> state, marker |-> markers[frames[i].st], log |-> log]

\* The nodes the walker may visit next in frame i.
Choices(i) ==
  LET f == frames[i] IN
  IF pass = 1
  THEN IF f.pc = "start"
       THEN IF f.via = "child" THEN ChildNodes ELSE {FragmentNode}
       ELSE IF nnodes < (IF doc.family = "region" THEN MaxNodes + 2 ELSE MaxNodes)
            THEN CASE f.via = "flush" -> RenderedNodes
                   [] f.via = "child" -> GrandChildNodes
                   [] OTHER -> FamilyNodes(doc.family)
            ELSE {}
  ELSE IF i <= Len(asts) /\ f.pos < Len(asts[i]) /\ asts[i][f.pos + 1].depth = Len(f.stack) + 1
       THEN {asts[i][f.pos + 1].node}
       ELSE {}

IdOf(i) == IF pass = 1 THEN nid + 1 ELSE asts[i][frames[i].pos + 1].id

\* The walker is at a node of frame i and may visit a child.
\* children.map(...) calls compileHtml on the children in order, each call
\* running up to its first await before the next is made.
EarlierStarted(i) ==
  \A k \in 1..(i - 1) :
    (frames[k].via = "child" /\ frames[k].parent = frames[i].parent) => frames[k].pc # "start"

CanEnter(i) ==
  /\ pc = "html"
  /\ \/ frames[i].pc = "start" /\ (frames[i].via = "child" => EarlierStarted(i))
     \/ frames[i].pc = "walk" /\ frames[i].stack # <<>>

\* The node on top of the stack has no further child.
HasNextChild(i) ==
  /\ i <= Len(asts)
  /\ frames[i].pos < Len(asts[i])
  /\ asts[i][frames[i].pos + 1].depth > Len(frames[i].stack)

CanLeave(i) ==
  /\ pc = "html"
  /\ frames[i].pc = "walk"
  /\ frames[i].stack # <<>>
  /\ (pass = 1 \/ ~HasNextChild(i))

Top(i) == frames[i].stack[Len(frames[i].stack)]

\* After a handler returns: the walk goes on, or has left its root.
Settle(f) ==
  IF f.pc \in {"start", "walk"}
  THEN [f EXCEPT !.pc = IF f.stack = <<>> THEN "end" ELSE "walk"]
  ELSE f

\* Frame i becomes w.f; spawn are the compileHtml calls the handler made,
\* visited the node it read.
Apply(i, w, spawn, visited) ==
  /\ frames' = [frames EXCEPT ![i] = Settle(w.f)] \o spawn
  /\ markers' = [markers EXCEPT ![frames[i].st] = w.marker]
                  \o (IF \E k \in 1..Len(spawn) : spawn[k].via = "flush"
                      THEN <<MarkerOff>> ELSE <<>>)
  /\ state' = w.state
  /\ log' = w.log
  /\ asts' = IF pass = 1
             THEN [asts EXCEPT ![i] = @ \o visited] \o [k \in 1..Len(spawn) |-> <<>>]
             ELSE asts
  /\ nnodes' = IF pass = 1 /\ visited # <<>> /\ frames[i].pc # "start"
               THEN nnodes + 1 ELSE nnodes
  /\ nid' = IF pass = 1 THEN nid + Len(visited) ELSE nid
  /\ UNCHANGED <<doc, pass, pc, script, gsp, art>>

Visited(i, n, id) == <<[node |-> n, depth |-> Len(frames[i].stack) + 1, id |-> id]>>

Read(w) == [w EXCEPT !.f.pos = @ + 1]

\* The handler awaits pushMarkdownToBuffer, which awaits compileHtml on the
\* re-parsed Markdown with { ...state, markers: { insideMarkdown: false } }.
Suspend(w, h, path, n, id) ==
  [w EXCEPT !.f.pc = "flush", !.f.cont = [h |-> h, path |-> path, node |-> n, id |-> id]]

\* compileHtml called with the state of the awaiting walk, markers included.
FlushFrameShared(i) == <<NewFrame(frames[i].st, i, "flush")>>

FlushFrame(i) == <<NewFrame(Len(markers) + 1, i, "flush")>>

\* case 'Fragment'
EnterFragment ==
  \E i \in 1..Len(frames) :
    /\ CanEnter(i)
    /\ \E n \in Choices(i) :
         /\ n.type = "Fragment"
         /\ Apply(i, Push(Emit(Read(W(i)), <<Tok("h(Fragment, null", IdOf(i), NoTag, ""), Comma>>),
                          n, IdOf(i)),
                  <<>>, Visited(i, n, IdOf(i)))

\* case 'SlotTemplate'
EnterSlotTemplate ==
  \E i \in 1..Len(frames) :
    /\ CanEnter(i)
    /\ \E n \in Choices(i) :
         /\ n.type = "SlotTemplate"
         /\ Apply(i, Push(IncParen(Emit(Read(W(i)),
                                        <<Tok("h(Fragment, null, children", IdOf(i), NoTag, "")>>)),
                          n, IdOf(i)),
                  <<>>, Visited(i, n, IdOf(i)))

\* case 'Slot', 'Head', 'InlineComponent', 'Title', 'Element'
EnterElement ==
  \E i \in 1..Len(frames) :
    /\ CanEnter(i)
    /\ \E n \in Choices(i) :
         /\ n.type \in ElementClass
         /\ LET id == IdOf(i)
                h == EnterHead(Read(W(i)), n, id)
                w == Push(h.w, n, id)
            IN IF h.path \in {"caught", "returned"}
               THEN Apply(i, w, <<>>, Visited(i, n, id))
               ELSE IF EnterFlushes(w, h.path)
               THEN IF Blank(w.f.md)
                    THEN Apply(i, EnterTail(FlushBlank(w), n, id, h.path), <<>>, Visited(i, n, id))
                    ELSE Apply(i, Suspend(w, "enter", h.path, n, id), FlushFrame(i), Visited(i, n, id))
               ELSE Apply(i, EnterTail(w, n, id, h.path), <<>>, Visited(i, n, id))

\* case 'Text'
EnterText ==
  \E i \in 1..Len(frames) :
    /\ CanEnter(i)
    /\ \E n \in Choices(i) :
         /\ n.type = "Text"
         /\ frames[i].stack # <<>>
         /\ LET w == Read(W(i))
                parent == Top(i).node
            IN IF w.marker.on
               THEN Apply(i, Emit([w EXCEPT !.f.curr = "markdown"], <<Tok("raw", IdOf(i), NoTag, n.text)>>),
                          <<>>, Visited(i, n, IdOf(i)))
               ELSE IF parent.tag # TagMarkdown /\ n.text = "blank"
               THEN Apply(i, w, <<>>, Visited(i, n, IdOf(i)))
               ELSE Apply(i, Emit(w, <<Comma, Tok("text", IdOf(i), NoTag, n.text)>>),
                          <<>>, Visited(i, n, IdOf(i)))

\* What enter does with the code compileExpression returned.
EmitExpression(w, n, id) ==
  IF n.code \in FALSY_EXPRESSIONS \/ n.code = "" THEN w
  ELSE IF w.marker.on THEN Emit(w, <<Tok("{code}", id, NoTag, "")>>)
  ELSE Emit(w, <<Comma, Tok("(code)", id, NoTag, "")>>)

\* compileExpression starts compileHtml on every child at once.
ChildFrames(i, n) == [k \in 1..n.kids |-> NewFrame(frames[i].st, i, "child")]

\* case 'Expression'.  A failed transpile is logged and thrown out of enter:
\* asyncWalk rejects, and the promise compileHtml returned never settles.
EnterExpression ==
  \E i \in 1..Len(frames) :
    /\ CanEnter(i)
    /\ \E n \in Choices(i) :
         /\ n.type = "Expression"
         /\ LET id == IdOf(i)
                w == Read(W(i))
            IN IF n.kids > 0
               THEN Apply(i, [w EXCEPT !.f.pc = "children",
                                       !.f.cont = [h |-> "expression", path |-> "", node |-> n, id |-> id]],
                          ChildFrames(i, n), Visited(i, n, id))
               ELSE IF n.code = "bad"
               THEN Apply(i, Rejected(Logged(w, "parseError")), <<>>, Visited(i, n, id))
               ELSE Apply(i, EmitExpression(w, n, id), <<>>, Visited(i, n, id))

\* case 'MustacheTag'
EnterMustacheTag ==
  \E i \in 1..Len(frames) :
    /\ CanEnter(i)
    /\ \E n \in Choices(i) :
         /\ n.type = "MustacheTag"
         /\ LET w == Read(W(i))
            IN Apply(i, Push(IF w.marker.on THEN [w EXCEPT !.f.curr = "markdown"] ELSE w, n, IdOf(i)),
                     <<>>, Visited(i, n, IdOf(i)))

\* The skip left out: the walker goes on to leave.
StyleLeaves == FALSE

\* case 'Style': this.skip() keeps the walker from calling leave.
StyleSkips == TRUE

\* case 'Style'.  Without the skip, leave runs and this.remove() takes the
\* node out of the tree.
EnterStyle ==
  \E i \in 1..Len(frames) :
    /\ CanEnter(i)
    /\ \E n \in Choices(i) :
         /\ n.type = "Style"
         /\ LET w == [W(i) EXCEPT !.state.css = Append(@, "style")]
            IN IF StyleSkips
               THEN Apply(i, Read(w), <<>>, Visited(i, n, IdOf(i)))
               ELSE /\ frames' = [frames EXCEPT ![i] = Settle(w.f)]
                    /\ state' = w.state
                    /\ asts' = IF pass = 1 THEN asts
                               ELSE [asts EXCEPT ![i] =
                                       SubSeq(@, 1, frames[i].pos) \o SubSeq(@, frames[i].pos + 2, Len(@))]
                    /\ nnodes' = IF pass = 1 THEN nnodes + 1 ELSE nnodes
                    /\ nid' = IF pass = 1 THEN nid + 1 ELSE nid
                    /\ UNCHANGED <<doc, pass, pc, markers, script, gsp, log, art>>

\* default: throw new Error('Unexpected (enter) node type: ' + node.type)
EnterUnexpected ==
  \E i \in 1..Len(frames) :
    /\ CanEnter(i)
    /\ \E n \in Choices(i) :
         /\ n.type = "Body"
         /\ Apply(i, Rejected(Read(W(i))), <<>>, Visited(i, n, IdOf(i)))

\* leave, case 'Fragment'
LeaveFragment ==
  \E i \in 1..Len(frames) :
    /\ CanLeave(i)
    /\ Top(i).node.type = "Fragment"
    /\ Apply(i, Pop(Emit(W(i), <<Close>>)), <<>>, <<>>)

\* leave, case 'MustacheTag'
LeaveMustacheTag ==
  \E i \in 1..Len(frames) :
    /\ CanLeave(i)
    /\ Top(i).node.type = "MustacheTag"
    /\ Apply(i, Pop(W(i)), <<>>, <<>>)

\* leave, case 'SlotTemplate', 'Slot', 'Head', 'Body', 'Title', 'Element'
LeaveElement ==
  \E i \in 1..Len(frames) :
    /\ CanLeave(i)
    /\ Top(i).node.type \in {"SlotTemplate", "Slot", "Head", "Body", "Title", "Element"}
    /\ LET n == Top(i).node
           w == Pop(W(i))
       IN IF w.f.curr = "markdown"
          THEN IF Blank(w.f.md)
               THEN Apply(i, LeaveElementTail(FlushBlank(w), n), <<>>, <<>>)
               ELSE Apply(i, Suspend(w, "leave", "", n, Top(i).id), FlushFrame(i), <<>>)
          ELSE Apply(i, LeaveElementTail(w, n), <<>>, <<>>)

\* leave, case 'InlineComponent'
LeaveInlineComponent ==
  \E i \in 1..Len(frames) :
    /\ CanLeave(i)
    /\ Top(i).node.type = "InlineComponent"
    /\ LET n == Top(i).node
           h == LeaveInlineHead(Pop(W(i)), n)
           w == h.w
       IN IF h.path \in {"threw", "returned"}
          THEN Apply(i, w, <<>>, <<>>)
          ELSE IF LeaveInlineFlushes(w)
          THEN IF Blank(w.f.md)
               THEN Apply(i, LeaveInlineTail(FlushBlank(w), n, TRUE), <<>>, <<>>)
               ELSE Apply(i, Suspend(w, "leaveInline", "", n, Top(i).id), FlushFrame(i), <<>>)
          ELSE Apply(i, LeaveInlineTail(w, n, FALSE), <<>>, <<>>)

\* The calls frame i awaits.
Awaited(i, via) == {j \in 1..Len(frames) : frames[j].parent = i /\ frames[j].via = via
                                           /\ frames[j].pc # "returned"}

\* pushMarkdownToBuffer resumes with the result of the recursive compileHtml,
\* and the handler that awaited it runs to its end.
FlushReturn ==
  \E i \in 1..Len(frames) :
    /\ pc = "html"
    /\ frames[i].pc = "flush"
    /\ \E j \in Awaited(i, "flush") :
         /\ frames[j].pc = "done"
         /\ LET c == frames[i].cont
                w0 == FlushRendered(W(i), frames[j].result)
                w1 == [w0 EXCEPT !.f.pc = "walk", !.f.cont = NoCont]
                w == CASE c.h = "enter" -> EnterTail(w1, c.node, c.id, c.path)
                       [] c.h = "leave" -> LeaveElementTail(w1, c.node)
                       [] OTHER -> LeaveInlineTail(w1, c.node, TRUE)
            IN /\ frames' = [frames EXCEPT ![i] = Settle(w.f), ![j].pc = "returned"]
               /\ markers' = [markers EXCEPT ![frames[i].st] = w.marker]
               /\ state' = w.state
               /\ log' = w.log
    /\ UNCHANGED <<doc, asts, pass, pc, script, gsp, art, nnodes, nid>>

\* compileExpression resumes when Promise.all has every child's code: the
\* expression is transpiled and enter runs to its end (this.skip()).
ExpressionReturn ==
  \E i \in 1..Len(frames) :
    /\ pc = "html"
    /\ frames[i].pc = "children"
    /\ \A j \in Awaited(i, "child") : frames[j].pc = "done"
    /\ LET c == frames[i].cont
           w0 == [W(i) EXCEPT !.f.pc = "walk", !.f.cont = NoCont]
           w == IF c.node.code = "bad" THEN Rejected(Logged(w0, "parseError"))
                ELSE EmitExpression(w0, c.node, c.id)
       IN /\ frames' = [j \in 1..Len(frames) |->
                          IF j = i THEN Settle(w.f)
                          ELSE IF j \in Awaited(i, "child") THEN [frames[j] EXCEPT !.pc = "returned"]
                          ELSE frames[j]]
          /\ markers' = [markers EXCEPT ![frames[i].st] = w.marker]
          /\ state' = w.state
          /\ log' = w.log
    /\ UNCHANGED <<doc, asts, pass, pc, script, gsp, art, nnodes, nid>>

\* asyncWalk(...).then(() => { ...cleanup...; resolve(content) })
ResolveWalk ==
  \E i \in 1..Len(frames) :
    /\ pc = "html"
    /\ frames[i].pc = "end"
    /\ frames' = [frames EXCEPT ![i] = [@ EXCEPT !.result = Cleanup(frames[i].out),
                                                 !.out = <<>>, !.md = <<>>, !.pc = "done"]]
    /\ UNCHANGED <<doc, asts, pass, pc, state, markers, script, gsp, log, art, nnodes, nid>>

Next ==
  \/ CompileModule
  \/ CompileCss
  \/ StartHtml
  \/ EnterFragment
  \/ EnterSlotTemplate
  \/ EnterElement
  \/ EnterText
  \/ EnterExpression
  \/ EnterMustacheTag
  \/ EnterStyle
  \/ EnterUnexpected
  \/ LeaveFragment
  \/ LeaveMustacheTag
  \/ LeaveElement
  \/ LeaveInlineComponent
  \/ FlushReturn
  \/ ExpressionReturn
  \/ ResolveWalk
  \/ Finish
  \/ Recompile

Spec == Init /\ [][Next]_vars

(***************************************************************************)
(* What the claims read off a run.                                         *)
(***************************************************************************)
\* The logging sink has received an error or a parse error.
Failed == \E i \in 1..Len(log) : log[i] \in {"error", "parseError"}

Balanced(code) == CountL(code) = CountR(code)

NoDup(s) == \A i, j \in 1..Len(s) : i < j => s[i] # s[j]

\* The nodes of the document's own template, as far as read.
RootEntries == IF asts = <<>> THEN {} ELSE Range(asts[1])

SlotContentCall == "h(__astro_slot_content, {}"
OwnCalls == {"h(\"tag\", {}", "h(tag, {}", "h(__astro_component(), {}"}

\* Positions of html holding the h( call emitted for node id itself.
OwnCallsOf(html, id) == {p \in 1..Len(html) : html[p].id = id /\ html[p].t \in OwnCalls}

\* '(' minus ')' over html[p..q].
Net(html, p, q) == CountL(SubSeq(html, p, q)) - CountR(SubSeq(html, p, q))

\* The position closing the call opened at p, 0 when it is never closed.
CloseOf(html, p) ==
  LET qs == {q \in p + 1..Len(html) : Net(html, p, q) = 0}
  IN IF qs = {} THEN 0 ELSE CHOOSE q \in qs : \A r \in qs : q <= r

\* C1: whenever codegen has returned an artifact and no failure was logged,
\* the html of the artifact holds as many '(' as ')'.
C1_Balanced == \A k \in 1..Len(art) : ~Failed => Balanced(art[k].html)

\* C2: a failed transpile, an unresolved component or a hydration directive
\* on a frontmatter-defined component (each is logged where it is raised)
\* aborts the compile: codegen returns no artifact for such a document.
C2_FailureAborts == art # <<>> => ~Failed

\* C3: after a transpile failure in the template (a parse error on the
\* sink) the emitted expression is still balanced when codegen returns.
C3_FailureKeepsBalance ==
  \A k \in 1..Len(art) :
    (\E i \in 1..Len(log) : log[i] = "parseError") => Balanced(art[k].html)

\* A compileHtml call that has ended.
Ended(f) == f.pc \in {"done", "returned", "rejected"}

\* C4: of two children spliced into one Expression, the later one does not
\* begin (enter its first node) before the emission of the earlier one is
\* complete.
C4_SiblingsInOrder ==
  \A i, j \in 1..Len(frames) :
    (/\ i < j
     /\ frames[i].via = "child"
     /\ frames[j].via = "child"
     /\ frames[i].parent = frames[j].parent
     /\ frames[j].pos > 0)
    => Ended(frames[i])

C6_NoDuplicateImports ==
  /\ NoDup(state.importStatements)
  /\ \A k \in 1..Len(art) : NoDup(art[k].imports)

C6_Witness ==
  /\ art # <<>>
  /\ Cardinality({p \in 1..Len(art[1].html) : art[1].html[p].t = "h(__astro_component(), {}"}) = 2
  /\ COMPONENT_IMPORT \in Range(art[1].imports)
  /\ SLOT_CONTENT_IMPORT \in Range(art[1].imports)

\* The import statements of the frontmatter that bind name.
ImportsBinding(name) ==
  {doc.body[i].text : i \in {i \in 1..Len(doc.body) :
      doc.body[i].type = "ImportDeclaration" /\ name \in Range(doc.body[i].names)}}

\* The import statements recorded for the component a tag names: they are
\* recorded under the local name of each import specifier, and a member
\* name such as ns.X is no such name.
RecordedFor(tag) == IF HasDot(tag) THEN {} ELSE ImportsBinding(tag.base)

\* An imported component rendered with the client:only directive.  A tag in
\* the legacy Name:method form takes its method from the name and not from
\* the directive; it is the subject of C12.
ClientOnlyImported(n) ==
  /\ n.type = "InlineComponent"
  /\ ~HasColon(n.tag)
  /\ ImportsBinding(n.tag.base) # {}
  /\ ~AttributesThrow(n.attrs)
  /\ findHydrationAttributes(getAttributes(n.attrs)).method = "only"

Slotted(n) ==
  /\ n.type \in {"Element", "InlineComponent", "Head", "Title"}
  /\ ~AttributesThrow(n.attrs)
  /\ MapHas(getAttributes(n.attrs), "slot")

\* The wrapper of node e: opened right before e's own h( call, closed
\* after that call is closed.
Wrapped(html, e) ==
  \E p \in 1..Len(html) :
    /\ html[p].t = SlotContentCall
    /\ html[p].id = e.id
    /\ html[p].b = MapGet(getAttributes(e.node.attrs), "slot").s
    /\ p + 2 <= Len(html)
    /\ html[p + 1].t = ","
    /\ p + 2 \in OwnCallsOf(html, e.id)
    /\ CloseOf(html, p + 2) > 0
    /\ CloseOf(html, p) > CloseOf(html, p + 2)

\* C8: when no failure was logged, the code emitted for an element with
\* slot="X" sits in a call h(__astro_slot_content, { name: "X" }, ...)
\* opened immediately before the element's own h( call and closed after it.
C8_SlotWrapped ==
  \A k \in 1..Len(art) : \A e \in RootEntries :
    (Slotted(e.node) /\ ~Failed) => Wrapped(art[k].html, e)

\* C9: the html of an artifact holds exactly one h( call for every Element
\* node of the template.
C9_OneCallPerElement ==
  \A k \in 1..Len(art) : \A e \in RootEntries :
    e.node.type = "Element" => Cardinality(OwnCallsOf(art[k].html, e.id)) = 1

\* compileModule has returned for the current codegen call.
ModuleDone == pc \in {"css", "html", "done"}

ExportsVariable(s) == s.type = "ExportNamedDeclaration" /\ s.decl = "VariableDeclaration"
ExportsFunction(s) == s.type = "ExportNamedDeclaration" /\ s.decl = "FunctionDeclaration"

\* The statements the claim lets the analyzer take out of the script.
Stripped(s) ==
  \/ s.type = "ImportDeclaration"
  \/ ExportsFunction(s) /\ s.names[1] = "getStaticPaths"
  \/ ExportsVariable(s) /\ s.names[1] \in {"__layout", "__content"}

ComponentCall == "h(__astro_component(), {}"

\* The first hydration directive of a resolved attribute map.
FirstDirective(attributes) ==
  LET ks == {i \in 1..Len(attributes) : attributes[i].key \in hydrationDirectives}
  IN IF ks = {} THEN NoHydration
     ELSE HydrationOf(attributes[CHOOSE i \in ks : \A j \in ks : i <= j])

\* C11: the method and the value the wrapper of a component is given are
\* those of the first hydration directive among the node's resolved
\* attributes, also when the node carries several directives.
C11_FirstDirective ==
  \A k \in 1..Len(art) : \A e \in RootEntries :
    (e.node.type \in ElementClass /\ ~HasColon(e.node.tag) /\ ~AttributesThrow(e.node.attrs)) =>
      \A p \in OwnCallsOf(art[k].html, e.id) :
        art[k].html[p].t = ComponentCall =>
          LET first == FirstDirective(getAttributes(e.node.attrs))
          IN art[k].html[p].b = first.method /\ art[k].html[p].v = first.value

\* The directive form <Name client:method /> of a legacy tag <Name:method />.
DirectiveForm(n) ==
  [n EXCEPT !.tag = ComponentName(n.tag),
            !.attrs = <<Attr("client:" \o n.tag.legacy, "true", "")>> \o @]

\* The node frame i has entered in this step, if it is a legacy tag of an
\* imported component.
EntersLegacy(i) ==
  /\ pass = 1
  /\ i <= Len(asts)
  /\ Len(asts'[i]) = Len(asts[i]) + 1
  /\ LET n == asts'[i][Len(asts'[i])].node
     IN /\ n.type = "InlineComponent"
        /\ HasColon(n.tag)
        /\ ImportsBinding(n.tag.base) # {}

\* C12: entering <Name:method /> emits the wrapper and leaves the import
\* statements that entering <Name client:method /> in its place does.
C12_LegacyEquivalent ==
  [][\A i \in 1..Len(frames) :
       EntersLegacy(i) =>
         LET e == asts'[i][Len(asts'[i])]
             d == DirectiveForm(e.node)
             h == EnterHead(Read(W(i)), d, e.id)
             w == EnterTail(Push(h.w, d, e.id), d, e.id, h.path)
         IN /\ state'.importStatements = w.state.importStatements
            /\ frames'[i].out = w.f.out]_vars

\* A compileHtml call whose walk has left its root.
WalkEnded(f) == f.pc \in {"end", "done", "returned"}

\* C13: when the walk of a compileHtml call with its own marker record (the
\* document's, or that of a Markdown flush) completes, insideMarkdown is
\* false, whatever the Markdown regions of the template held and however
\* many flushes happened in them.
C13_MarkerOffAtEnd ==
  \A i \in 1..Len(frames) :
    (frames[i].via # "child" /\ WalkEnded(frames[i])) => ~markers[frames[i].st].on

C13_Witness ==
  /\ Len(frames) >= 2
  /\ WalkEnded(frames[1])
  /\ frames[2].via = "flush"
  /\ \E e \in RootEntries : e.node = Component(TagMarkdown, <<>>)
  /\ \E e \in RootEntries : e.node = Text("word") /\ e.depth = 3

\* The h( calls a frame has emitted and not closed, the calls of the
\* Fragment nodes it is in left out (they are emitted without paren++).
Unclosed(f) ==
  CountL(f.out \o f.md) - CountR(f.out \o f.md)
    - Cardinality({k \in 1..Len(f.stack) : f.stack[k].node.type = "Fragment"})

\* C14: between two handlers of a walk, paren counts the unclosed h( calls
\* from its sentinel -1, and when the walk has left its root paren is -1
\* again.
C14_ParenCounts ==
  \A i \in 1..Len(frames) :
    /\ frames[i].pc \in {"walk", "end"} => frames[i].paren = Unclosed(frames[i]) - 1
    /\ frames[i].pc = "end" => frames[i].paren = -1

\* Frame i leaves a Markdown component in this step.
LeavesMarkdown(i) ==
  /\ CanLeave(i)
  /\ Top(i).node.type = "InlineComponent"
  /\ Top(i).node.tag = TagMarkdown
  /\ i <= Len(frames')
  /\ Len(frames'[i].stack) < Len(frames[i].stack)

\* C15: insideMarkdown is false or holds a count of at least 1, and no leave
\* of a Markdown component decrements a marker that is false.
C15_MarkerCounted ==
  /\ [](\A k \in 1..Len(markers) : markers[k].on => markers[k].count >= 1)
  /\ [][\A i \in 1..Len(frames) : LeavesMarkdown(i) => markers[frames[i].st].on]_vars

\* The event loop runs every handler that is ready: a step that can be
\* taken is taken.
FairSpec == Spec /\ WF_vars(Next)

\* The promise codegen returned has resolved or rejected.
Settled == pc \in {"done", "threw"}

\* C17: every invocation of codegen eventually settles.
C17_Settles == (pc = "module") ~> Settled

\* The class the resolver gives a component tag, read off the branch enter
\* takes and the wrapper it builds.
Branch(st, tag) ==
  LET cn == ComponentName(tag)
      r == Resolve(st, tag)
  IN CASE r = "undefined" -> "undefined"
       [] r = "frontmatter" ->
            IF isFrontmatterDefinedComponent(st, cn) THEN "frontmatter-defined" ELSE "fragment"
       [] OTHER ->
            IF getComponentWrapper(tag, NoHydration).ident = Tag("__astro_element_registry", "", "")
            THEN "custom-element" ELSE "imported"

\* The class the claim gives it: the segment before the first dot is looked
\* up in components, then the custom-element test, then declarations, then
\* the built-in Fragment.
Claimed(st, tag) ==
  IF tag.base \in st.components THEN "imported"
  ELSE IF isCustomElementTag(tag) THEN "custom-element"
  ELSE IF tag.base \in st.declarations THEN "frontmatter-defined"
  ELSE IF ComponentName(tag) = Tag("Fragment", "", "") THEN "fragment"
  ELSE "undefined"

\* C16: every component tag the walk has entered was classified as the
\* claim's lookup order classifies it.
C16_Resolution ==
  pc = "html" =>
    \A e \in RootEntries :
      (e.node.type \in {"InlineComponent", "Head", "Title", "Element"} /\ isComponentTag(e.node.tag))
        => Branch(state, e.node.tag) = Claimed(state, e.node.tag)

\* The element-class node whose leave runs to its end in this step of frame
\* i: at once, or after the flush the leave awaited.
Closing(i) ==
  IF i > Len(frames') THEN {}
  ELSE IF /\ CanLeave(i)
          /\ Len(frames'[i].stack) < Len(frames[i].stack)
          /\ frames'[i].pc # "flush"
          /\ Top(i).node.type \in ElementClass \cup {"SlotTemplate"}
  THEN {Top(i)}
  ELSE IF /\ frames[i].pc = "flush"
          /\ frames'[i].pc # "flush"
          /\ frames[i].cont.h \in {"leave", "leaveInline"}
  THEN {[node |-> frames[i].cont.node, id |-> frames[i].cont.id]}
  ELSE {}

\* enter emitted h(__astro_slot_content, ...) for node id.
Opened(out, id) == \E p \in 1..Len(out) : out[p].t = SlotContentCall /\ out[p].id = id

\* C18: the leave of an element-class node emits the ')' of the slot
\* wrapper (the raw attribute list holds slot, and paren goes down) exactly
\* when the enter of that node emitted the wrapper's opening.
C18_SlotCloseMatches ==
  [][\A i \in 1..Len(frames) : \A c \in Closing(i) :
       (HasRawSlot(c.node.attrs) /\ frames'[i].paren < frames[i].paren)
         <=> Opened(frames'[i].out, c.id)]_vars

\* C19: between two handlers of a walk the active buffer is markdown only
\* while insideMarkdown is truthy, and a walk that has left its root holds
\* nothing in its markdown buffer.
C19_NothingLost ==
  \A i \in 1..Len(frames) :
    /\ (frames[i].pc \in {"walk", "end"} /\ frames[i].curr = "markdown")
         => markers[frames[i].st].on
    /\ frames[i].pc = "end" => frames[i].md = <<>>

\* Node e is an imported component and the html renders it on the server:
\* the wrapper emitted for it names the component itself.
RenderedOnServer(html, e) ==
  /\ e.node.type = "InlineComponent"
  /\ ImportsBinding(e.node.tag.base) # {}
  /\ \E p \in OwnCallsOf(html, e.id) :
       html[p].t = ComponentCall /\ html[p].a.base = e.node.tag.base

\* C20: the import statements binding an imported component that the
\* artifact renders on the server are among the artifact's imports.
C20_ServerImportsKept ==
  \A k \in 1..Len(art) : \A e \in RootEntries :
    RenderedOnServer(art[k].html, e) => ImportsBinding(e.node.tag.base) \subseteq Range(art[k].imports)

\* The place of a line in a list of imports, 0 when it is not there.
PlaceOf(imports, line) ==
  IF line \in Range(imports) THEN CHOOSE p \in 1..Len(imports) : imports[p] = line ELSE 0

\* C21: two import declarations of the frontmatter whose text is in the
\* imports of the artifact stand there in the order they have in the
\* source.
C21_ImportsInSourceOrder ==
  \A k \in 1..Len(art) : \A i, j \in 1..Len(doc.body) :
    (/\ i < j
     /\ doc.body[i].type = "ImportDeclaration"
     /\ doc.body[j].type = "ImportDeclaration"
     /\ doc.body[i].text # doc.body[j].text
     /\ PlaceOf(art[k].imports, doc.body[i].text) > 0
     /\ PlaceOf(art[k].imports, doc.body[j].text) > 0)
    => PlaceOf(art[k].imports, doc.body[i].text) < PlaceOf(art[k].imports, doc.body[j].text)

\* Frame j is the compileHtml call k or one made, directly or not, under it.
RECURSIVE Under(_, _)
Under(j, k) ==
  \/ j = k
  \/ /\ frames[j].parent \in 1..Len(frames)
     /\ Under(frames[j].parent, k)

\* The marker record of the walk that awaits the Markdown flush k.
OuterSt(k) == frames[frames[k].parent].st

\* A handler of frame j runs in this step (the step in which the awaiting
\* handler takes the result of a completed call is that handler's).
Steps(j) ==
  /\ j <= Len(frames')
  /\ frames[j].pc \notin {"done", "returned"}
  /\ frames'[j] # frames[j]

\* C22: a Markdown flush leaves the marker of the enclosing walk as it was.
\* The compileHtml call of the flush starts on a marker record of its own
\* with insideMarkdown false and count 0, and no handler that runs in the
\* flush, whatever Markdown components it enters or leaves, changes the
\* value or the count of the marker of the walk awaiting it.
C22_FlushKeepsMarker ==
  [][/\ \A k \in (Len(frames) + 1)..Len(frames') :
          frames'[k].via = "flush" =>
            /\ frames'[k].st # frames'[frames'[k].parent].st
            /\ \A j \in 1..Len(frames) : frames'[k].st # frames[j].st
            /\ markers'[frames'[k].st] = MarkerOff
     /\ \A k \in 1..Len(frames) : \A j \in 1..Len(frames) :
          (frames[k].via = "flush" /\ Under(j, k) /\ Steps(j)) =>
            markers'[OuterSt(k)] = markers[OuterSt(k)]]_vars

\* A flush awaited while the outer marker is on has entered a Markdown
\* component of its own.
C22_Witness ==
  \E k \in 1..Len(frames) :
    /\ frames[k].via = "flush"
    /\ frames[frames[k].parent].pc = "flush"
    /\ markers[OuterSt(k)].on
    /\ markers[OuterSt(k)].count >= 1
    /\ frames[k].st # OuterSt(k)
    /\ markers[frames[k].st].on
    /\ \E p \in 1..Len(frames[k].stack) : frames[k].stack[p].node = Component(TagMarkdown, <<>>)

====
